---- MODULE Spec2Model ----
(***************************************************************************)
(* Folderize: content-addressed placement of attachments in a vault.      *)
(*                                                                         *)
(* The model follows src/src/organize.ts (DirectoryManager, FileOrganizer  *)
(* and the plugin glue that starts them).  A path is the sequence of its  *)
(* "/"-separated segments, a segment is a string.  The vault (the host's   *)
(* storage tree) is modelled by the live TFolder.children arrays and the   *)
(* TFile objects; every awaited host call is one step of the task that     *)
(* issues it, so that tasks interleave exactly at their awaits.            *)
(***************************************************************************)
EXTENDS Integers, Sequences, FiniteSets, TLC

VARIABLES
    children,    \* [folder path -> Seq(segment)]: TFolder.children of every folder
    fileAt,      \* [file path -> file]: the TFile stored at a path
    fpath,       \* [file -> path]: TFile.path (kept by a deleted TFile)
    content,     \* [file -> Seq(byte)]: the bytes readBinary returns
    settings,    \* FolderizeSettings
    task,        \* [task -> local state of the async function it runs]
    timers,      \* files with a pending auto-organize setTimeout callback
    lastCall,    \* the host command issued by the last step
    notices,     \* Notice texts shown during the current batch
    invoked,     \* [file -> number of organizeFile calls of the current batch]
    cleanCalls,  \* cleanEmptyDirectories calls of the current batch
    derived,     \* (content, settings, hivePath) of every organizeFile so far
    faults,      \* host failures injected so far
    runs,        \* 1 once the "Organize all attachments" command has been used
    gp,          \* input and output of generatePath taken alone
    plugin,      \* FolderizePlugin: its lifecycle and its "create" listeners
    ck,          \* cksum taken alone: its data, its loop and its hash object
    existed      \* the folders in storage at the last call of cleanEmptyDirectories

vars == <<children, fileAt, fpath, content, settings, task, timers, lastCall,
          notices, invoked, cleanCalls, derived, faults, runs, gp, plugin,
          ck, existed>>

----
(* Bounds of the model. *)

MaxDepth == 2        \* settings.pathDepth ranges over 1..MaxDepth
MaxFaults == 1       \* host calls that fail in one behaviour
MaxTimers == 1       \* auto-organize callbacks pending at the start
MaxPureDepth == 34   \* depths tried on generatePath taken alone
MaxSaves == 2        \* saveSettings calls in one behaviour
MaxRuns == 2         \* uses of the command where it is used again
MaxLen == 3          \* bytes of a content hashed by cksum taken alone
MaxChunk == 4        \* chunk sizes tried on cksum taken alone

Files == {"f1", "f2"}
Tasks == {"cmd", "timer"}
Contents == {<< >>, <<0>>, <<255>>}

NoFile == "none"
NoPath == << >>

----
(* Paths. *)

AttachmentPath == <<"A">>          \* settings.attachmentPath, split at "/"

dirname(p) == SubSeq(p, 1, Len(p) - 1)
basename(p) == p[Len(p)]
IsPrefix(p, q) == Len(p) <= Len(q) /\ SubSeq(q, 1, Len(p)) = p

\* s without its first occurrence of e: Array.prototype.remove on folder.children
RECURSIVE Remove(_, _)
Remove(s, e) ==
    IF s = << >> THEN << >>
    ELSE IF Head(s) = e THEN Tail(s)
    ELSE <<Head(s)>> \o Remove(Tail(s), e)

Restrict(f, S) == [x \in S |-> f[x]]

----
(* The digest.  SHA-256 itself is outside the repository; it is replaced   *)
(* by a small deterministic function of the bytes fed to it that yields    *)
(* DigestLen bytes, distinguishes the contents of the model, and lets two  *)
(* contents share their first byte.                                        *)

DigestLen == 32

RECURSIVE Mix(_, _)
Mix(h, bytes) ==
    IF bytes = << >> THEN h
    ELSE Mix((33 * h + Head(bytes)) % 256, Tail(bytes))

Sha256(bytes) ==
    LET h == Mix(5, bytes)
    IN  [i \in 1..DigestLen |-> IF i = 1 THEN h - (h % 2) ELSE (h * i) % 256]

HASH_CHUNK_SIZE == 4 * 1024

\* the while loop of cksum: the chunks handed to hash.update, in order
RECURSIVE HashUpdates(_, _, _)
HashUpdates(data, offset, chunkSize) ==
    IF offset < Len(data)
    THEN LET end == IF offset + chunkSize < Len(data) THEN offset + chunkSize
                    ELSE Len(data)
         IN  <<SubSeq(data, offset + 1, end)>> \o HashUpdates(data, offset + chunkSize, chunkSize)
    ELSE << >>

RECURSIVE Concat(_)
Concat(chunks) == IF chunks = << >> THEN << >> ELSE Head(chunks) \o Concat(Tail(chunks))

\* cksum without its read: the digest of the chunks of data
cksum(data, chunkSize) == Sha256(Concat(HashUpdates(data, 0, chunkSize)))

----
(* generatePath. *)

HexChars == <<"0", "1", "2", "3", "4", "5", "6", "7", "8", "9", "a", "b", "c", "d", "e", "f">>

\* Number.prototype.toString(16) of a byte
RECURSIVE toString16(_)
toString16(b) ==
    IF b < 16 THEN HexChars[b + 1]
    ELSE toString16(b \div 16) \o HexChars[(b % 16) + 1]

padStartNone(s, n, c) == s

\* String.prototype.padStart with a one-character filler
RECURSIVE padStart(_, _, _)
padStart(s, n, c) == IF Len(s) < n THEN padStart(c \o s, n, c) ELSE s

HexByte(b) == padStart(toString16(b), 2, "0")

LoopBoundNoClamp(pathDepth, len) == pathDepth

\* the number of iterations of the for loop of generatePath:
\* i < settings.pathDepth && i < checksum.length
LoopBound(pathDepth, len) == IF pathDepth < len THEN pathDepth ELSE len

\* generatePath(checksum, settings).  checksum[i] past the end of the buffer
\* is undefined and its toString throws a TypeError.
generatePath(checksum, s) ==
    LET n == LoopBound(s.pathDepth, Len(checksum))
    IN  IF n > Len(checksum)
        THEN [threw |-> TRUE, path |-> NoPath]
        ELSE [threw |-> FALSE,
              path |-> s.attachmentPath \o [i \in 1..n |-> HexByte(checksum[i])]]

----
(* The host's storage tree. *)

IsFolder(ch, p) == p \in DOMAIN ch
IsFile(fa, p) == p \in DOMAIN fa

existsNever(p) == FALSE

\* vault.adapter.exists
exists(p) == IsFolder(children, p) \/ IsFile(fileAt, p)

\* vault.adapter.readBinary: defined when a file is stored at p
CanRead(p) == IsFile(fileAt, p)
readBinaryPath(p) == content[fileAt[p]] \o <<Len(p)>>
readBinary(p) == content[fileAt[p]]

\* vault.createFolder(p) is refused when p exists or its parent is no folder
CanCreateFolder(p) == ~exists(p) /\ IsFolder(children, dirname(p))
createFolder(ch, p) ==
    (p :> << >>) @@ [ch EXCEPT ![dirname(p)] = Append(@, basename(p))]

\* vault.rename(file, np) is refused when the file is gone, when the parent
\* of np is no folder or when np is a folder; when np is a file the host
\* either refuses or replaces it
SourceExists(f) == IsFile(fileAt, fpath[f]) /\ fileAt[fpath[f]] = f
CanRename(f, np) ==
    /\ SourceExists(f)
    /\ IsFolder(children, dirname(np))
    /\ ~IsFolder(children, np)
Occupied(np) == IsFile(fileAt, np)

renameChildren(ch, old, np) ==
    LET ch1 == [ch EXCEPT ![dirname(old)] = Remove(@, basename(old))]
    IN  [ch1 EXCEPT ![dirname(np)] = Append(Remove(@, basename(np)), basename(np))]
renameFileAt(fa, f, old, np) ==
    (np :> f) @@ Restrict(fa, DOMAIN fa \ {old, np})

\* vault.delete(folder) removes the folder with everything beneath it and
\* takes it out of its parent's children array
deleteChildren(ch, p) ==
    Restrict([ch EXCEPT ![dirname(p)] = Remove(@, basename(p))],
             {q \in DOMAIN ch : ~IsPrefix(p, q)})
deleteFileAt(fa, p) == Restrict(fa, {q \in DOMAIN fa : ~IsPrefix(p, q)})

----
(* Tree walks. *)

\* getFilesInFolder(folder): the files below folder, in the order of the walk
RECURSIVE getFilesInFolder(_, _, _)
RECURSIVE FilesOfChildren(_, _, _, _)
FilesOfChildren(ch, fa, folder, names) ==
    IF names = << >> THEN << >>
    ELSE LET child == Append(folder, Head(names))
             here  == IF IsFile(fa, child) THEN <<fa[child]>>
                      ELSE IF IsFolder(ch, child) THEN getFilesInFolder(ch, fa, child)
                      ELSE << >>
         IN  here \o FilesOfChildren(ch, fa, folder, Tail(names))
getFilesInFolder(ch, fa, folder) == FilesOfChildren(ch, fa, folder, ch[folder])

FrameCounted(folder) == [dir |-> folder, i |-> 0, cnt |-> 1]

\* an activation of removeEmptyFolders at its start: let removedCount = 0
Frame(folder) == [dir |-> folder, i |-> 0, cnt |-> 0]

IsEmptyNoFolders(ch, p) == \A j \in 1..Len(ch[p]) : ~IsFolder(ch, Append(p, ch[p][j]))

IsEmptyNoFiles(ch, p) == \A j \in 1..Len(ch[p]) : IsFolder(ch, Append(p, ch[p][j]))

\* child.children.length === 0
IsEmpty(ch, p) == Len(ch[p]) = 0

RootReturnPruned(top, ch) ==
    IF IsEmpty(ch, top.dir)
    THEN [fin |-> FALSE, pending |-> top.dir, ret |-> 0,
          stack |-> <<[dir |-> dirname(top.dir), i |-> Len(ch[dirname(top.dir)]),
                       cnt |-> top.cnt]>>]
    ELSE [fin |-> TRUE, stack |-> << >>, pending |-> NoPath, ret |-> top.cnt]

\* the activation on the attachment folder returns removedCount to
\* cleanEmptyDirectories, which does nothing to the folder itself
RootReturn(top, ch) == [fin |-> TRUE, stack |-> << >>, pending |-> NoPath, ret |-> top.cnt]

\* removeEmptyFolders, run from the call stack `stack` up to its next
\* vault.delete or to its return.  A frame is one activation: its folder, the
\* index of the array iterator of `for (const child of folder.children)`
\* and removedCount.  The iterator reads the live array on every step.
RECURSIVE Walk(_, _)
Walk(stack, ch) ==
    LET n == Len(stack)
        top == stack[n]
    IN  IF top.i < Len(ch[top.dir])
        THEN LET child == Append(top.dir, ch[top.dir][top.i + 1])
                 adv == [stack EXCEPT ![n].i = @ + 1]
             IN  IF IsFolder(ch, child)
                 THEN Walk(Append(adv, Frame(child)), ch)
                 ELSE Walk(adv, ch)
        ELSE IF n = 1
        THEN RootReturn(top, ch)
        ELSE LET caller == [SubSeq(stack, 1, n - 1) EXCEPT ![n - 1].cnt = @ + top.cnt]
             IN  IF IsEmpty(ch, top.dir)
                 THEN [fin |-> FALSE, stack |-> caller, pending |-> top.dir, ret |-> 0]
                 ELSE Walk(caller, ch)

----
(* The plugin: FolderizePlugin and what the host keeps for it. *)

\* Component.registerEvent(eventRef) of the host is declared to return void:
\* the value assigned to autoOrganizeEventRef is undefined
registerEvent == "undefined"

\* if (this.autoOrganizeEventRef)
Truthy(v) == v \notin {"undefined", "null"}

\* registerAutoOrganize: vault.on("create", ...) attaches one more listener
registerAutoOrganize(pl) ==
    IF Truthy(pl.autoOrganizeEventRef) THEN pl
    ELSE [pl EXCEPT !.listeners = @ + 1, !.autoOrganizeEventRef = registerEvent]

\* unregisterAutoOrganize: vault.offref detaches the listener of the ref
unregisterAutoOrganize(pl) ==
    IF Truthy(pl.autoOrganizeEventRef)
    THEN [pl EXCEPT !.listeners = @ - 1, !.autoOrganizeEventRef = "null"]
    ELSE pl

applySettings(pl, s) ==
    IF s.autoOrganize THEN registerAutoOrganize(pl) ELSE unregisterAutoOrganize(pl)

\* file.path.startsWith(attachmentPath + "/") || file.path === attachmentPath
isAttachment(p, s) == IsPrefix(s.attachmentPath, p)

\* DEFAULT_SETTINGS.pathDepth, the depth of an installation that saved none
DefaultPathDepth == 4

\* the same slider with no lower limit of its own
PathDepthSettingFromZero == [minimum |-> 0, maximum |-> 8, step |-> 1]

\* PathDepthSetting: the limits and the step it gives to the host's slider
PathDepthSetting == [minimum |-> 1, maximum |-> 8, step |-> 1]

\* the values a slider of these limits can hand to the setter
SliderValues(sl) == {v \in sl.minimum..sl.maximum : (v - sl.minimum) % sl.step = 0}

\* a plugin object before onload: no field assigned, nothing attached
Unloaded == [loaded |-> FALSE, autoOrganizeEventRef |-> "undefined", listeners |-> 0,
             created |-> {}, scheduled |-> [f \in Files |-> 0], saves |-> 0]

\* the plugin loaded with auto-organize on, after the "create" events of
\* the files in T have each been scheduled
Loaded(T) == [applySettings([Unloaded EXCEPT !.loaded = TRUE], [autoOrganize |-> TRUE])
                 EXCEPT !.created = T,
                        !.scheduled = [f \in Files |-> IF f \in T THEN 1 ELSE 0]]

----
(* Initial vaults: the attachment folder with some empty folders left by   *)
(* earlier moves and each file somewhere below it.                         *)

\* folders left empty below the attachment folder: none, two siblings, a chain
EmptyFolders ==
    {{}, {<<"A", "d1">>, <<"A", "d2">>}, {<<"A", "d1">>, <<"A", "d1", "d3">>}}

\* the proper prefixes of p from the attachment folder down, and p itself
Prefixes(p) == {SubSeq(p, 1, k) : k \in 1..Len(p)}

RECURSIVE SetToSeq(_)
SetToSeq(S) ==
    IF S = {} THEN << >>
    ELSE LET e == CHOOSE x \in S : TRUE IN <<e>> \o SetToSeq(S \ {e})

\* the children arrays of a tree given by its folders and its file paths
ChildrenOf(folders, filePaths) ==
    [p \in folders |->
        SetToSeq({basename(q) : q \in {r \in folders \cup filePaths :
                                         Len(r) > 0 /\ dirname(r) = p}})]

Idle == [pc |-> "idle", file |-> NoFile, data |-> << >>, newPath |-> NoPath,
         k |-> 0, worklist |-> << >>, idx |-> 0, processedCount |-> 0,
         stack |-> << >>, pending |-> NoPath]

NoCall == [step |-> "none", op |-> "none", path |-> NoPath, ok |-> TRUE, by |-> "none"]

NoGp == [pc |-> "off", checksum |-> << >>, pathDepth |-> 0,
         out |-> [threw |-> FALSE, path |-> NoPath]]

NoCk == [pc |-> "off", data |-> << >>, chunkSize |-> 0, offset |-> 0,
         updates |-> << >>, digest |-> << >>]

Target(s, c) == generatePath(cksum(c, HASH_CHUNK_SIZE), s).path

InitVault(cont, home, name) ==
    LET filePaths == {Append(home[f], name[f]) : f \in Files}
        folders == {<< >>} \cup UNION {Prefixes(home[f]) : f \in Files}
    IN  /\ \A f, g \in Files : f # g => Append(home[f], name[f]) # Append(home[g], name[g])
        /\ \E D \in EmptyFolders : children = ChildrenOf(folders \cup D, filePaths)
        /\ fileAt = [q \in filePaths |-> CHOOSE f \in Files : Append(home[f], name[f]) = q]
        /\ fpath = [f \in Files |-> Append(home[f], name[f])]
        /\ content = cont

InitCommon ==
    /\ task = [t \in Tasks |-> Idle]
    /\ lastCall = NoCall
    /\ notices = {}
    /\ invoked = [f \in Files |-> 0]
    /\ cleanCalls = 0
    /\ derived = {}
    /\ faults = 0
    /\ runs = 0

InitSettings ==
    \E d \in 1..MaxDepth, r \in BOOLEAN :
        settings = [attachmentPath |-> AttachmentPath, pathDepth |-> d,
                    autoOrganize |-> TRUE, removeEmptyFolders |-> r]

\* a vault whose attachment folder exists: each file at the top of it, in
\* a folder of its own or where its content puts it
RootedVault ==
    \E cont \in [Files -> Contents], name \in [Files -> {"x", "y"}] :
        /\ cont["f1"] = <<0>>
        /\ name["f1"] = "x"
        /\ \E home \in [Files -> {AttachmentPath, <<"A", "d1">>}
                                  \cup {Target(settings, cont[f]) : f \in Files}] :
              /\ home["f1"] \in {AttachmentPath, Target(settings, cont["f1"])}
              /\ home["f2"] \in {AttachmentPath, <<"A", "d1">>, Target(settings, cont["f2"])}
              /\ InitVault(cont, home, name)

Init ==
    /\ InitSettings
    /\ RootedVault
    /\ \E T \in SUBSET Files : Cardinality(T) <= MaxTimers /\ timers = T
    /\ InitCommon
    /\ gp = NoGp
    /\ ck = NoCk
    /\ existed = {}
    /\ plugin = Loaded(timers)

----
(* Steps of the async functions.  A task is the command callback ("cmd")   *)
(* or an auto-organize timer callback ("timer").                           *)

\* lastCall after a step of task t: the step and the host call it issued
Call(step, op, p, ok, t) == [step |-> step, op |-> op, path |-> p, ok |-> ok, by |-> t]
Step(step, t) == Call(step, "none", NoPath, TRUE, t)

ReturnUncounted(t, tk) ==
    IF t = "cmd"
    THEN [tk EXCEPT !.pc = "loop", !.file = NoFile, !.data = << >>, !.newPath = NoPath,
                    !.k = 0]
    ELSE [Idle EXCEPT !.pc = "done"]

\* organizeFile returns to its caller: the loop of organizeAttachments
\* (processedCount++) or the timer callback, which ends
Return(t, tk) ==
    IF t = "cmd"
    THEN [tk EXCEPT !.pc = "loop", !.file = NoFile, !.data = << >>, !.newPath = NoPath,
                    !.k = 0, !.processedCount = @ + 1]
    ELSE [Idle EXCEPT !.pc = "done"]

ThrowSwallowed(t, tk) == Return(t, tk)

\* organizeFile throws: no caller catches, the promise of the task is rejected
Throw(t, tk) ==
    IF t = "cmd"
    THEN [tk EXCEPT !.pc = "failed", !.file = NoFile, !.data = << >>, !.newPath = NoPath,
                    !.k = 0, !.stack = << >>, !.pending = NoPath]
    ELSE [Idle EXCEPT !.pc = "failed"]

Ended(t) == task[t].pc \in {"idle", "done", "failed"}

UnchangedVault == UNCHANGED <<children, fileAt, fpath, content>>
UnchangedBatchLog == UNCHANGED <<notices, invoked, cleanCalls, runs>>

\* the host refuses a call it could have served
HostFault == faults < MaxFaults /\ faults' = faults + 1

NotFoundSilent == {}

\* new Notice("Attachment folder not found")
NotFound == {[text |-> "Attachment folder not found", n |-> 0]}

\* organizeAttachments up to its loop: resolve the folder, enumerate the files
organizeAttachments_start(t) ==
    /\ t = "cmd"
    /\ Ended(t)
    /\ runs' = runs + 1
    /\ invoked' = [f \in Files |-> 0]
    /\ cleanCalls' = 0
    /\ IF IsFolder(children, settings.attachmentPath)
       THEN /\ task' = [task EXCEPT ![t] =
                   [Idle EXCEPT !.pc = "loop",
                                !.worklist = getFilesInFolder(children, fileAt,
                                                              settings.attachmentPath)]]
            /\ notices' = {[text |-> "Organizing attachments...", n |-> 0]}
       ELSE /\ task' = [task EXCEPT ![t] = [Idle EXCEPT !.pc = "done"]]
            /\ notices' = {[text |-> "Organizing attachments...", n |-> 0]} \cup NotFound
    /\ lastCall' = Step("organizeAttachments", t)
    /\ UnchangedVault
    /\ UNCHANGED <<settings, timers, derived, faults, gp, plugin, ck, existed>>

\* the command "Organize all attachments", used for the first time
organizeAttachments(t) == runs = 0 /\ organizeAttachments_start(t)

\* the command used again after an earlier batch has ended
organizeAttachments_again(t) == runs \in 1..(MaxRuns - 1) /\ organizeAttachments_start(t)

\* one turn of `for (const file of files)`, or the end of the loop
organizeAttachments_loop(t) ==
    /\ task[t].pc = "loop"
    /\ LET tk == task[t]
       IN  IF tk.idx < Len(tk.worklist)
           THEN /\ task' = [task EXCEPT ![t] =
                       [tk EXCEPT !.pc = "cksum", !.idx = @ + 1,
                                  !.file = tk.worklist[tk.idx + 1]]]
                /\ invoked' = [invoked EXCEPT ![tk.worklist[tk.idx + 1]] = @ + 1]
                /\ notices' = notices
           ELSE /\ task' = [task EXCEPT ![t] =
                       [tk EXCEPT !.pc = IF settings.removeEmptyFolders
                                         THEN "clean" ELSE "done"]]
                /\ invoked' = invoked
                /\ notices' = notices \cup {[text |-> "Organized", n |-> tk.processedCount]}
    /\ lastCall' = Step("loop", t)
    /\ UnchangedVault
    /\ UNCHANGED <<settings, timers, cleanCalls, derived, faults, runs, gp, plugin, ck, existed>>

\* the callback of setTimeout in registerAutoOrganize: plugin.organizeFile(file)
autoOrganize(f) ==
    /\ f \in timers
    /\ Ended("timer")
    /\ timers' = timers \ {f}
    /\ task' = [task EXCEPT !["timer"] = [Idle EXCEPT !.pc = "cksum", !.file = f]]
    /\ lastCall' = Step("autoOrganize", "timer")
    /\ UnchangedVault
    /\ UnchangedBatchLog
    /\ UNCHANGED <<settings, derived, faults, gp, plugin, ck, existed>>

\* cksum: await readBinary(file.path)
organizeFile_cksum(t) ==
    /\ task[t].pc = "cksum"
    /\ LET tk == task[t]
           p == fpath[tk.file]
       IN  \/ /\ CanRead(p)
              /\ task' = [task EXCEPT ![t] = [tk EXCEPT !.pc = "derive", !.data = readBinary(p)]]
              /\ lastCall' = Call("cksum", "readBinary", p, TRUE, t)
              /\ faults' = faults
           \/ /\ ~CanRead(p) \/ HostFault
              /\ CanRead(p) \/ faults' = faults
              /\ task' = [task EXCEPT ![t] = Throw(t, tk)]
              /\ lastCall' = Call("cksum", "readBinary", p, FALSE, t)
    /\ UnchangedVault
    /\ UnchangedBatchLog
    /\ UNCHANGED <<settings, timers, derived, gp, plugin, ck, existed>>

NewPathNoName(hivePath, filename) == hivePath

\* `${hivePath}/${filename}`
NewPath(hivePath, filename) == Append(hivePath, filename)

AlreadyPlacedNever(p, newPath) == FALSE

AlreadyPlacedInverted(p, newPath) == p # newPath

\* file.path === newPath
AlreadyPlaced(p, newPath) == p = newPath

\* organizeFile from the digest to the call of mkdirs
organizeFile_derive(t) ==
    /\ task[t].pc = "derive"
    /\ LET tk == task[t]
           checksum == cksum(tk.data, HASH_CHUNK_SIZE)
           hivePath == generatePath(checksum, settings)
           filename == basename(fpath[tk.file])
           newPath == NewPath(hivePath.path, filename)
       IN  IF hivePath.threw
           THEN /\ task' = [task EXCEPT ![t] = Throw(t, tk)]
                /\ derived' = derived
           ELSE /\ derived' = derived \cup
                       {[content |-> content[tk.file], at |-> fpath[tk.file],
                         root |-> settings.attachmentPath,
                         pathDepth |-> settings.pathDepth, dir |-> hivePath.path]}
                /\ IF AlreadyPlaced(fpath[tk.file], newPath)
                   THEN task' = [task EXCEPT ![t] = Return(t, tk)]
                   ELSE task' = [task EXCEPT ![t] =
                            [tk EXCEPT !.pc = "mkdirs", !.data = << >>,
                                       !.newPath = newPath, !.k = 1]]
    /\ lastCall' = Step("derive", t)
    /\ UnchangedVault
    /\ UnchangedBatchLog
    /\ UNCHANGED <<settings, timers, faults, gp, plugin, ck, existed>>

\* the state of mkdirs after the prefix of length k has been dealt with
NextPart(tk) ==
    IF tk.k < Len(dirname(tk.newPath))
    THEN [tk EXCEPT !.pc = "mkdirs", !.k = @ + 1]
    ELSE [tk EXCEPT !.pc = "rename", !.k = 0]

\* mkdirs: await exists(currentPath)
mkdirs_exists(t) ==
    /\ task[t].pc = "mkdirs"
    /\ LET tk == task[t]
           currentPath == SubSeq(dirname(tk.newPath), 1, tk.k)
       IN  /\ task' = [task EXCEPT ![t] =
                  IF exists(currentPath) THEN NextPart(tk)
                  ELSE [tk EXCEPT !.pc = "createFolder"]]
           /\ lastCall' = Call("mkdirs", "exists", currentPath, TRUE, t)
    /\ UnchangedVault
    /\ UnchangedBatchLog
    /\ UNCHANGED <<settings, timers, derived, faults, gp, plugin, ck, existed>>

\* mkdirs: await createFolder(currentPath)
mkdirs_createFolder(t) ==
    /\ task[t].pc = "createFolder"
    /\ LET tk == task[t]
           currentPath == SubSeq(dirname(tk.newPath), 1, tk.k)
       IN  \/ /\ CanCreateFolder(currentPath)
              /\ children' = createFolder(children, currentPath)
              /\ task' = [task EXCEPT ![t] = NextPart(tk)]
              /\ lastCall' = Call("mkdirs", "createFolder", currentPath, TRUE, t)
              /\ faults' = faults
           \/ /\ ~CanCreateFolder(currentPath) \/ HostFault
              /\ CanCreateFolder(currentPath) \/ faults' = faults
              /\ children' = children
              /\ task' = [task EXCEPT ![t] = Throw(t, tk)]
              /\ lastCall' = Call("mkdirs", "createFolder", currentPath, FALSE, t)
    /\ UNCHANGED <<fileAt, fpath, content>>
    /\ UnchangedBatchLog
    /\ UNCHANGED <<settings, timers, derived, gp, plugin, ck, existed>>

\* organizeFile: await vault.rename(file, newPath)
organizeFile_rename(t) ==
    /\ task[t].pc = "rename"
    /\ LET tk == task[t]
           f == tk.file
           old == fpath[f]
           np == tk.newPath
       IN  \/ /\ CanRename(f, np)
              /\ children' = renameChildren(children, old, np)
              /\ fileAt' = renameFileAt(fileAt, f, old, np)
              /\ fpath' = [fpath EXCEPT ![f] = np]
              /\ task' = [task EXCEPT ![t] = Return(t, tk)]
              /\ lastCall' = Call("rename", "rename", np, TRUE, t)
              /\ faults' = faults
           \/ /\ ~CanRename(f, np) \/ Occupied(np) \/ HostFault
              /\ (CanRename(f, np) /\ ~Occupied(np)) \/ faults' = faults
              /\ UNCHANGED <<children, fileAt, fpath>>
              /\ task' = [task EXCEPT ![t] = Throw(t, tk)]
              /\ lastCall' = Call("rename", "rename", np, FALSE, t)
    /\ content' = content
    /\ UnchangedBatchLog
    /\ UNCHANGED <<settings, timers, derived, gp, plugin, ck, existed>>

RemovedNotice(n) == IF n > 0 THEN {[text |-> "Removed", n |-> n]} ELSE {}

\* removeEmptyFolders from the call stack `stack` on: the walk up to its next
\* vault.delete, which is issued at once, or up to the return to
\* cleanEmptyDirectories, which shows its notice and ends the batch
RunWalk(t, step, stack) ==
    LET tk == task[t]
        w == Walk(stack, children)
    IN  IF w.fin
        THEN /\ task' = [task EXCEPT ![t] =
                    [tk EXCEPT !.pc = "done", !.stack = << >>, !.pending = NoPath]]
             /\ notices' = notices \cup RemovedNotice(w.ret)
             /\ lastCall' = Step(step, t)
             /\ UNCHANGED <<children, fileAt, faults>>
        ELSE \/ /\ children' = deleteChildren(children, w.pending)
                /\ fileAt' = deleteFileAt(fileAt, w.pending)
                /\ task' = [task EXCEPT ![t] =
                       [tk EXCEPT !.pc = "delete", !.stack = w.stack,
                                  !.pending = w.pending]]
                /\ lastCall' = Call(step, "delete", w.pending, TRUE, t)
                /\ UNCHANGED <<notices, faults>>
             \/ /\ HostFault
                /\ task' = [task EXCEPT ![t] = Throw(t, tk)]
                /\ lastCall' = Call(step, "delete", w.pending, FALSE, t)
                /\ UNCHANGED <<children, fileAt, notices>>

\* cleanEmptyDirectories: resolve the folder and start removeEmptyFolders
cleanEmptyDirectories(t) ==
    /\ task[t].pc = "clean"
    /\ cleanCalls' = cleanCalls + 1
    /\ IF IsFolder(children, settings.attachmentPath)
       THEN RunWalk(t, "cleanEmptyDirectories", <<Frame(settings.attachmentPath)>>)
       ELSE /\ task' = [task EXCEPT ![t] = [task[t] EXCEPT !.pc = "done"]]
            /\ lastCall' = Step("cleanEmptyDirectories", t)
            /\ UNCHANGED <<children, fileAt, notices, faults>>
    /\ existed' = DOMAIN children
    /\ UNCHANGED <<fpath, content>>
    /\ UNCHANGED <<settings, timers, invoked, derived, runs, gp, plugin, ck>>

\* removeEmptyFolders after `await vault.delete(child)`: removedCount++ and
\* on with the loop
removeEmptyFolders(t) ==
    /\ task[t].pc = "delete"
    /\ RunWalk(t, "removeEmptyFolders",
               [task[t].stack EXCEPT ![Len(task[t].stack)].cnt = @ + 1])
    /\ UNCHANGED <<fpath, content>>
    /\ UNCHANGED <<settings, timers, invoked, cleanCalls, derived, runs, gp, plugin, ck, existed>>

Next ==
    \/ \E t \in Tasks : organizeAttachments(t)
    \/ \E t \in Tasks : organizeAttachments_loop(t)
    \/ \E f \in Files : autoOrganize(f)
    \/ \E t \in Tasks : organizeFile_cksum(t)
    \/ \E t \in Tasks : organizeFile_derive(t)
    \/ \E t \in Tasks : mkdirs_exists(t)
    \/ \E t \in Tasks : mkdirs_createFolder(t)
    \/ \E t \in Tasks : organizeFile_rename(t)
    \/ \E t \in Tasks : cleanEmptyDirectories(t)
    \/ \E t \in Tasks : removeEmptyFolders(t)

Spec == Init /\ [][Next]_vars

----
(* generatePath taken alone, on every digest and on shorter buffers. *)

Checksums ==
    {cksum(c, HASH_CHUNK_SIZE) : c \in Contents}
        \cup {SubSeq(cksum(c, HASH_CHUNK_SIZE), 1, 3) : c \in Contents}

InitPath ==
    /\ settings = [attachmentPath |-> AttachmentPath, pathDepth |-> 1,
                   autoOrganize |-> TRUE, removeEmptyFolders |-> FALSE]
    /\ children = (<< >> :> <<"A">>) @@ (AttachmentPath :> << >>)
    /\ fileAt = << >>
    /\ fpath = [f \in Files |-> NoPath]
    /\ content = [f \in Files |-> << >>]
    /\ timers = {}
    /\ plugin = Loaded({})
    /\ InitCommon
    /\ ck = NoCk
    /\ existed = {}
    /\ \E c \in Checksums, d \in 0..MaxPureDepth :
          gp = [pc |-> "in", checksum |-> c, pathDepth |-> d,
                out |-> [threw |-> FALSE, path |-> NoPath]]

generatePath_call ==
    /\ gp.pc = "in"
    /\ gp' = [gp EXCEPT !.pc = "out",
                        !.out = generatePath(gp.checksum,
                                             [settings EXCEPT !.pathDepth = gp.pathDepth])]
    /\ UNCHANGED <<children, fileAt, fpath, content, settings, task, timers, lastCall,
                   notices, invoked, cleanCalls, derived, faults, runs, plugin, ck, existed>>

NextPath == generatePath_call

SpecPath == InitPath /\ [][NextPath]_vars

----
(* cksum taken alone, after its read: every content up to MaxLen bytes     *)
(* under every chunk size from 1 to MaxChunk.                              *)

Bytes == {0, 255}

\* a slice that starts one byte early, over the end of the chunk before
sliceFromBefore(data, begin, end) ==
    SubSeq(data, IF begin > 0 THEN begin ELSE 1, IF end < Len(data) THEN end ELSE Len(data))

\* ArrayBuffer.slice(begin, end): the bytes begin..end-1, end clamped to
\* byteLength
slice(data, begin, end) ==
    SubSeq(data, begin + 1, IF end < Len(data) THEN end ELSE Len(data))

\* after `const data = await readBinary(filePath)`, createHash and
\* `let offset = 0`
InitCksum ==
    /\ settings = [attachmentPath |-> AttachmentPath, pathDepth |-> 1,
                   autoOrganize |-> TRUE, removeEmptyFolders |-> FALSE]
    /\ children = (<< >> :> <<"A">>) @@ (AttachmentPath :> << >>)
    /\ fileAt = << >>
    /\ fpath = [f \in Files |-> NoPath]
    /\ content = [f \in Files |-> << >>]
    /\ timers = {}
    /\ plugin = Loaded({})
    /\ InitCommon
    /\ gp = NoGp
    /\ existed = {}
    /\ \E n \in 0..MaxLen, size \in 1..MaxChunk :
          \E data \in [1..n -> Bytes] :
              ck = [NoCk EXCEPT !.pc = "loop", !.data = data, !.chunkSize = size]

UnchangedByCksum ==
    UNCHANGED <<children, fileAt, fpath, content, settings, task, timers, lastCall,
                notices, invoked, cleanCalls, derived, faults, runs, gp, plugin, existed>>

\* one turn of `while (offset < data.byteLength)`
cksum_update ==
    /\ ck.pc = "loop"
    /\ ck.offset < Len(ck.data)
    /\ ck' = [ck EXCEPT
                 !.updates = Append(@, slice(ck.data, ck.offset, ck.offset + ck.chunkSize)),
                 !.offset = @ + ck.chunkSize]
    /\ UnchangedByCksum

\* the loop is left: return hash.digest()
cksum_digest ==
    /\ ck.pc = "loop"
    /\ ~(ck.offset < Len(ck.data))
    /\ ck' = [ck EXCEPT !.pc = "out", !.digest = Sha256(Concat(ck.updates))]
    /\ UnchangedByCksum

NextCksum ==
    \/ cksum_update
    \/ cksum_digest

SpecCksum == InitCksum /\ [][NextCksum]_vars

----
(* The command and cleanEmptyDirectories called one after the other, with  *)
(* no timer pending, on vaults with and without an attachment folder.      *)

\* settings.attachmentPath is absent or names a file
UnrootedVault ==
    \E rootIsFile \in BOOLEAN :
        LET p1 == IF rootIsFile THEN AttachmentPath ELSE <<"x">>
        IN  /\ children = (<< >> :> <<basename(p1), "y", "d1">>) @@ (<<"d1">> :> << >>)
            /\ fileAt = (p1 :> "f1") @@ (<<"y">> :> "f2")
            /\ fpath = [f \in Files |-> IF f = "f1" THEN p1 ELSE <<"y">>]
            /\ content = [f \in Files |-> <<0>>]

\* the attachment folder holds no file, only what earlier moves left behind
BareRootVault ==
    LET filePaths == {<<"x">>, <<"y">>}
    IN  /\ \E D \in EmptyFolders :
              children = ChildrenOf({<< >>, AttachmentPath} \cup D, filePaths)
        /\ fileAt = (<<"x">> :> "f1") @@ (<<"y">> :> "f2")
        /\ fpath = [f \in Files |-> IF f = "f1" THEN <<"x">> ELSE <<"y">>]
        /\ content = [f \in Files |-> <<0>>]

\* an attachment without extension whose name is a hex segment: f2 is the
\* file stored at the path of the directory that f1's content derives
HexNamedVault ==
    \E c2 \in Contents :
        LET dir == Target(settings, <<0>>)
        IN  InitVault([f \in Files |-> IF f = "f1" THEN <<0>> ELSE c2],
                      [f \in Files |-> IF f = "f1" THEN AttachmentPath ELSE dirname(dir)],
                      [f \in Files |-> IF f = "f1" THEN "x" ELSE basename(dir)])

\* the task is idle, or cleanEmptyDirectories(settings.attachmentPath) has
\* just been called on its own
InitSeq ==
    /\ InitSettings
    /\ RootedVault \/ UnrootedVault \/ BareRootVault \/ HexNamedVault
    /\ timers = {}
    /\ \E direct \in BOOLEAN :
          task = [t \in Tasks |-> IF direct /\ t = "cmd"
                                  THEN [Idle EXCEPT !.pc = "clean"] ELSE Idle]
    /\ lastCall = NoCall
    /\ notices = {}
    /\ invoked = [f \in Files |-> 0]
    /\ cleanCalls = 0
    /\ derived = {}
    /\ faults = 0
    /\ runs = 0
    /\ gp = NoGp
    /\ ck = NoCk
    /\ existed = {}
    /\ plugin = Loaded({})

NextSeq ==
    \/ organizeAttachments("cmd")
    \/ organizeAttachments_again("cmd")
    \/ organizeAttachments_loop("cmd")
    \/ organizeFile_cksum("cmd")
    \/ organizeFile_derive("cmd")
    \/ mkdirs_exists("cmd")
    \/ mkdirs_createFolder("cmd")
    \/ organizeFile_rename("cmd")
    \/ cleanEmptyDirectories("cmd")
    \/ removeEmptyFolders("cmd")

SpecSeq == InitSeq /\ [][NextSeq]_vars

----
(* The plugin's lifecycle and its "create" listeners, taken without the    *)
(* organizer: a callback that fires starts organizeFile, which goes no     *)
(* further.                                                                 *)

InitPlugin ==
    /\ \E d \in 1..MaxDepth, r \in BOOLEAN, a \in BOOLEAN :
          settings = [attachmentPath |-> AttachmentPath, pathDepth |-> d,
                      autoOrganize |-> a, removeEmptyFolders |-> r]
    /\ RootedVault \/ UnrootedVault
    /\ timers = {}
    /\ plugin = Unloaded
    /\ InitCommon
    /\ gp = NoGp
    /\ ck = NoCk
    /\ existed = {}

UnchangedOrganizer ==
    UNCHANGED <<children, fileAt, fpath, content, task, lastCall, notices, invoked,
                cleanCalls, derived, faults, runs, gp, ck, existed>>

\* onload: loadSettings, the command, the settings tab, applySettings
onload ==
    /\ ~plugin.loaded
    /\ plugin' = applySettings([plugin EXCEPT !.loaded = TRUE,
                                              !.autoOrganizeEventRef = "undefined"],
                               settings)
    /\ UNCHANGED <<settings, timers>>
    /\ UnchangedOrganizer

\* a setting of the settings tab is changed: its setter assigns the field
\* and calls saveSettings, which ends with applySettings
saveSettings ==
    /\ plugin.loaded
    /\ plugin.saves < MaxSaves
    /\ \E s2 \in {[settings EXCEPT !.autoOrganize = ~@],
                   [settings EXCEPT !.removeEmptyFolders = ~@]} :
          /\ settings' = s2
          /\ plugin' = [applySettings(plugin, s2) EXCEPT !.saves = @ + 1]
    /\ timers' = timers
    /\ UnchangedOrganizer

\* onunload, after which the host detaches what was given to registerEvent
onunload ==
    /\ plugin.loaded
    /\ plugin' = [unregisterAutoOrganize(plugin) EXCEPT !.loaded = FALSE, !.listeners = 0]
    /\ UNCHANGED <<settings, timers>>
    /\ UnchangedOrganizer

\* the host announces "create" for file f: every attached listener runs
\* and calls setTimeout if f is an attachment
vault_create(f) ==
    /\ f \notin plugin.created
    /\ SourceExists(f)
    /\ LET n == IF isAttachment(fpath[f], settings) THEN plugin.listeners ELSE 0
       IN  /\ plugin' = [plugin EXCEPT !.created = @ \cup {f}, !.scheduled[f] = @ + n]
           /\ timers' = IF n > 0 THEN timers \cup {f} ELSE timers
    /\ settings' = settings
    /\ UnchangedOrganizer

NextPlugin ==
    \/ onload
    \/ saveSettings
    \/ onunload
    \/ \E f \in Files : vault_create(f)
    \/ \E f \in Files : autoOrganize(f)

SpecPlugin == InitPlugin /\ [][NextPlugin]_vars

----
(* The settings tab: the plugin loaded and unloaded, its toggles and its   *)
(* path depth slider, on a vault that stays as it is.                      *)

\* the settings are those of DEFAULT_SETTINGS or those an earlier session
\* saved (loadSettings takes the saved fields as they are); the vault has
\* an attachment folder with each file at the top of it
InitTab ==
    /\ \E d \in (1..MaxDepth) \cup {DefaultPathDepth}, r \in BOOLEAN, a \in BOOLEAN :
          settings = [attachmentPath |-> AttachmentPath, pathDepth |-> d,
                      autoOrganize |-> a, removeEmptyFolders |-> r]
    /\ \E cont \in [Files -> Contents] :
          InitVault(cont, [f \in Files |-> AttachmentPath],
                    [f \in Files |-> IF f = "f1" THEN "x" ELSE "y"])
    /\ timers = {}
    /\ plugin = Unloaded
    /\ InitCommon
    /\ gp = NoGp
    /\ ck = NoCk
    /\ existed = {}

\* the slider is moved: the setter assigns pathDepth and calls saveSettings
PathDepthSetting_set ==
    /\ plugin.loaded
    /\ plugin.saves < MaxSaves
    /\ \E v \in SliderValues(PathDepthSetting) :
          /\ settings' = [settings EXCEPT !.pathDepth = v]
          /\ plugin' = [applySettings(plugin, settings') EXCEPT !.saves = @ + 1]
    /\ timers' = timers
    /\ UnchangedOrganizer

NextTab ==
    \/ onload
    \/ saveSettings
    \/ PathDepthSetting_set
    \/ onunload

SpecTab == InitTab /\ [][NextTab]_vars

----
(* Auto-organize at work: files announced by "create" while the command,   *)
(* the callbacks and the attachment path setting are used.                 *)

OtherPath == <<"B">>       \* a second folder of the vault, next to AttachmentPath

\* f1 is stored under AttachmentPath, f2 under the other folder
InitAuto ==
    /\ InitSettings
    /\ LET filePaths == {Append(AttachmentPath, "x"), Append(OtherPath, "y")}
       IN  /\ children = ChildrenOf({<< >>, AttachmentPath, OtherPath}, filePaths)
           /\ fileAt = (Append(AttachmentPath, "x") :> "f1")
                           @@ (Append(OtherPath, "y") :> "f2")
           /\ fpath = [f \in Files |-> IF f = "f1" THEN Append(AttachmentPath, "x")
                                                   ELSE Append(OtherPath, "y")]
           /\ content = [f \in Files |-> IF f = "f1" THEN <<0>> ELSE <<255>>]
    /\ timers = {}
    /\ plugin = Loaded({})
    /\ InitCommon
    /\ gp = NoGp
    /\ ck = NoCk
    /\ existed = {}

\* the attachment path is edited: the setter assigns the field of the
\* settings object, which running calls hold too, and calls saveSettings
AttachmentPathSetting_set ==
    /\ plugin.loaded
    /\ plugin.saves < MaxSaves
    /\ \E val \in {AttachmentPath, OtherPath} \ {settings.attachmentPath} :
          /\ settings' = [settings EXCEPT !.attachmentPath = val]
          /\ plugin' = [applySettings(plugin, settings') EXCEPT !.saves = @ + 1]
    /\ timers' = timers
    /\ UnchangedOrganizer

NextAuto ==
    \/ Next
    \/ \E f \in Files : vault_create(f)
    \/ AttachmentPathSetting_set

SpecAuto == InitAuto /\ [][NextAuto]_vars

----
(* Properties. *)

Range(q) == {q[i] : i \in 1..Len(q)}
Min(a, b) == IF a < b THEN a ELSE b

UnderRoot(p) ==
    Len(p) > Len(settings.attachmentPath) /\ IsPrefix(settings.attachmentPath, p)

\* the directory derived from the content of f, and the path f belongs at
TargetDir(f) == Target(settings, content[f])
TargetPath(f) == Append(TargetDir(f), basename(fpath[f]))
Placed(f) == SourceExists(f) /\ fpath[f] = TargetPath(f)

Mutation == {"createFolder", "rename", "delete"}

\* C1: organizeFile on a file that already sits at its derived path issues
\* no createFolder, rename or delete, leaves the storage tree and the path
\* of the file as they are, and returns normally once the digest is known.
C1_Idempotence ==
    [][\A t \in Tasks :
          (/\ task[t].pc \in {"cksum", "derive"}
           /\ task'[t] # task[t]
           /\ Placed(task[t].file))
          => /\ children' = children /\ fileAt' = fileAt /\ fpath' = fpath
             /\ lastCall'.op \notin Mutation
             /\ task[t].pc = "derive" => task'[t] = Return(t, task[t])]_vars

C1_Witness ==
    /\ lastCall.step = "derive"
    /\ lastCall.by = "cmd"
    /\ task["cmd"].pc = "loop"
    /\ task["cmd"].idx > 0
    /\ Placed(task["cmd"].worklist[task["cmd"].idx])
    /\ task["timer"].pc = "idle"

\* C2: when the rename of organizeFile succeeds for a file that is not yet
\* at its target path, the file is at target directory/basename afterwards,
\* its old path is gone, every prefix of the target directory is a folder
\* and no other file or folder has moved.
C2_Moved ==
    [][\A t \in Tasks :
          LET f == task[t].file
              old == fpath[f]
              np == TargetPath(f)
          IN  (/\ task[t].pc = "rename"
               /\ task'[t] = Return(t, task[t])
               /\ old # np)
              => /\ fpath'[f] = np
                 /\ IsFile(fileAt', np) /\ fileAt'[np] = f
                 /\ ~IsFile(fileAt', old) /\ ~IsFolder(children', old)
                 /\ basename(old) \notin Range(children'[dirname(old)])
                 /\ basename(np) \in Range(children'[dirname(np)])
                 /\ \A q \in Prefixes(TargetDir(f)) : IsFolder(children', q)
                 /\ \A g \in Files \ {f} : fpath'[g] = fpath[g]
                 /\ DOMAIN children' = DOMAIN children
                 /\ DOMAIN fileAt' = (DOMAIN fileAt \ {old}) \cup {np}]_vars

C2_Witness ==
    /\ lastCall.step = "rename"
    /\ lastCall.ok
    /\ \E f \in Files : Placed(f) /\ fpath[f] = lastCall.path
    /\ \E f \in Files : SourceExists(f) /\ ~Placed(f)

\* C3: for a depth d between 0 and the length of the checksum, generatePath
\* returns the root followed by exactly d segments, segment i being byte i
\* of the checksum as two lowercase hexadecimal characters.
C3_PathShape ==
    (gp.pc = "out" /\ gp.pathDepth <= Len(gp.checksum))
    => /\ ~gp.out.threw
       /\ Len(gp.out.path) = Len(AttachmentPath) + gp.pathDepth
       /\ SubSeq(gp.out.path, 1, Len(AttachmentPath)) = AttachmentPath
       /\ \A i \in 1..gp.pathDepth :
             LET seg == gp.out.path[Len(AttachmentPath) + i]
                 b == gp.checksum[i]
             IN  /\ Len(seg) = 2
                 /\ seg = HexChars[(b \div 16) + 1] \o HexChars[(b % 16) + 1]

C3_Witness ==
    /\ gp.pc = "out"
    /\ gp.pathDepth = Len(gp.checksum)
    /\ Len(gp.checksum) = DigestLen
    /\ \E i \in 1..gp.pathDepth : gp.checksum[i] < 16
    /\ \E i \in 1..gp.pathDepth : gp.checksum[i] >= 16
    /\ Len(gp.out.path) = Len(AttachmentPath) + DigestLen

\* C4: for a depth larger than the number of bytes of the checksum,
\* generatePath yields min(depth, length) segments and throws nothing.
C4_DepthClamp ==
    (gp.pc = "out" /\ gp.pathDepth > Len(gp.checksum))
    => /\ ~gp.out.threw
       /\ Len(gp.out.path) - Len(AttachmentPath) = Min(gp.pathDepth, Len(gp.checksum))

C4_Witness ==
    /\ gp.pc = "out"
    /\ Len(gp.checksum) = DigestLen
    /\ gp.pathDepth > DigestLen
    /\ ~gp.out.threw
    /\ Len(gp.out.path) = Len(AttachmentPath) + DigestLen

\* C5: two organizeFile runs under the same attachmentPath and pathDepth on
\* files of equal content derive the same directory, wherever the files
\* are, whatever they are called and whichever runs first.
C5_Determinism ==
    \A r1, r2 \in derived :
        (r1.content = r2.content /\ r1.root = r2.root /\ r1.pathDepth = r2.pathDepth)
        => r1.dir = r2.dir

C5_Witness ==
    \E r1, r2 \in derived :
        /\ r1.content = r2.content
        /\ dirname(r1.at) # dirname(r2.at)
        /\ basename(r1.at) # basename(r2.at)
        /\ r1.dir = r2.dir

BatchEnded == runs > 0 /\ task["cmd"].pc \in {"done", "failed"}
RootFound == [text |-> "Attachment folder not found", n |-> 0] \notin notices

\* C6: whatever fails in organizeFile for one file of the worklist, the
\* batch still calls organizeFile for every other file and reaches its end.
C6_BatchIsolation ==
    (BatchEnded /\ RootFound)
    => /\ \A f \in Range(task["cmd"].worklist) : invoked[f] > 0
       /\ \E n \in notices : n.text = "Organized"

\* a folder with no file child and no subfolder that has children
Qualifies(p) ==
    \A j \in 1..Len(children[p]) :
        LET c == Append(p, children[p][j])
        IN  IsFolder(children, c) /\ Len(children[c]) = 0

\* C7: when cleanEmptyDirectories has returned without a failed delete, no
\* folder strictly below the root is left with no file child and no
\* non-empty subfolder.
C7_PruningComplete ==
    (/\ lastCall.step \in {"cleanEmptyDirectories", "removeEmptyFolders"}
     /\ lastCall.by = "cmd"
     /\ task["cmd"].pc = "done")
    => \A p \in DOMAIN children : UnderRoot(p) => ~Qualifies(p)

\* C8: a step of cleanEmptyDirectories deletes no file, and a folder it
\* deletes has no file beneath it when the delete is issued.
C8_PruningKeepsFiles ==
    [][\A t \in Tasks :
          (task[t].pc \in {"clean", "delete"} /\ task'[t] # task[t])
          => /\ fileAt' = fileAt
             /\ fpath' = fpath
             /\ \A p \in DOMAIN children \ DOMAIN children' :
                   \A q \in DOMAIN fileAt : ~IsPrefix(p, q)]_vars

C8_Witness ==
    /\ lastCall.op = "delete"
    /\ lastCall.ok
    /\ ~IsFolder(children, lastCall.path)
    /\ \A f \in Files : SourceExists(f)
    /\ \E f \in Files : Len(fpath[f]) > Len(lastCall.path)

\* C9: the worklist is taken once, before any move; organizeFile is called
\* exactly once on each of its files and on no other file, never twice on
\* a file that moved or failed.
C9_FrozenWorklist ==
    LET wl == task["cmd"].worklist
    IN  /\ \A f \in Files : invoked[f] <= 1
        /\ \A f \in Files : invoked[f] = 1 => f \in Range(wl)
        /\ \A i, j \in 1..Len(wl) : wl[i] = wl[j] => i = j
        /\ lastCall.step = "organizeAttachments" /\ task["cmd"].pc = "loop"
              => Range(wl) = {f \in Files : SourceExists(f) /\ UnderRoot(fpath[f])}
        /\ BatchEnded => \A f \in Range(wl) : invoked[f] = 1

\* C10: with an existing root, cleanEmptyDirectories is called exactly once,
\* after the last organizeFile, when removeEmptyFolders is set, and never
\* when it is not set.
C10_PruneOnce ==
    /\ cleanCalls <= 1
    /\ cleanCalls = 1 =>
          /\ settings.removeEmptyFolders
          /\ task["cmd"].idx = Len(task["cmd"].worklist)
          /\ task["cmd"].pc \in {"delete", "done", "failed"}
    /\ (BatchEnded /\ RootFound) =>
          cleanCalls = IF settings.removeEmptyFolders THEN 1 ELSE 0

\* C11: when attachmentPath is absent or names a file, organizeAttachments
\* shows "Attachment folder not found" and returns normally, no organizeFile
\* and no cleanEmptyDirectories is called and no host command is issued;
\* cleanEmptyDirectories called on such a path returns normally, issues no
\* host command and shows nothing.  The storage tree stays as it was.
C11_AbsentRoot ==
    /\ [](~RootFound =>
             /\ task["cmd"].pc = "done"
             /\ \A f \in Files : invoked[f] = 0
             /\ cleanCalls = 0
             /\ lastCall.op = "none"
             /\ \A n \in notices : n.text \notin {"Organized", "Removed"})
    /\ [][(/\ ~IsFolder(children, settings.attachmentPath)
            /\ task'["cmd"] # task["cmd"])
           => /\ children' = children /\ fileAt' = fileAt /\ fpath' = fpath
              /\ task'["cmd"].pc = "done"
              /\ lastCall'.op = "none"
              /\ IF task["cmd"].pc = "clean"
                 THEN notices' = notices
                 ELSE /\ [text |-> "Attachment folder not found", n |-> 0] \in notices'
                      /\ \A f \in Files : invoked'[f] = 0
                      /\ cleanCalls' = 0]_vars

C11_Witness ==
    /\ lastCall.step = "organizeAttachments"
    /\ ~RootFound
    /\ IsFile(fileAt, settings.attachmentPath)
    /\ settings.removeEmptyFolders
    /\ task["cmd"].pc = "done"

PruneReturned ==
    /\ lastCall.step \in {"cleanEmptyDirectories", "removeEmptyFolders"}
    /\ lastCall.by = "cmd"
    /\ task["cmd"].pc = "done"

\* C12 as stated: when cleanEmptyDirectories has returned, the root is not
\* left in storage with no file child and no non-empty folder child.
C12_RootRemoved ==
    (PruneReturned /\ IsFolder(children, settings.attachmentPath))
    => ~Qualifies(settings.attachmentPath)

\* C12 amended: no step of cleanEmptyDirectories deletes the folder it was
\* called on or asks the host to; a root that ends with no children stays.
C12_RootKept ==
    [][\A t \in Tasks :
          (/\ task[t].pc \in {"clean", "delete"}
           /\ task'[t] # task[t]
           /\ IsFolder(children, settings.attachmentPath))
          => /\ IsFolder(children', settings.attachmentPath)
             /\ lastCall'.path # settings.attachmentPath]_vars

C12_Witness ==
    /\ PruneReturned
    /\ lastCall.step = "removeEmptyFolders"
    /\ IsFolder(children, settings.attachmentPath)
    /\ Len(children[settings.attachmentPath]) = 0

\* C13: a vault.delete that the host refuses during cleanEmptyDirectories is
\* caught: the task that issued it has not failed, it goes on with the walk
\* or returns normally, and when it has ended, the only empty folders left
\* below the root are the refused one and its ancestors.
C13_PruneIsolation ==
    (lastCall.op = "delete" /\ ~lastCall.ok)
    => /\ task[lastCall.by].pc \in {"delete", "done"}
       /\ Ended(lastCall.by) =>
             \A p \in DOMAIN children :
                 (UnderRoot(p) /\ Len(children[p]) = 0) => IsPrefix(p, lastCall.path)

PresentIn(ch, fa, p) == IsFolder(ch, p) \/ IsFile(fa, p)

\* the prefix mkdirs is dealing with
CurrentPath(tk) == SubSeq(dirname(tk.newPath), 1, tk.k)

\* C14: mkdirs takes the prefixes of its path from the shortest on, asks
\* exists for each, issues createFolder for a prefix exactly when it is not
\* in storage, none at all when the whole path is, and every prefix of the
\* path is in storage when it returns.
C14_Mkdirs ==
    /\ [](task["cmd"].pc = "createFolder" =>
             /\ ~PresentIn(children, fileAt, CurrentPath(task["cmd"]))
             /\ ~PresentIn(children, fileAt, dirname(task["cmd"].newPath)))
    /\ [][LET tk == task["cmd"]
              tk2 == task'["cmd"]
              cur == CurrentPath(tk)
          IN  /\ (tk.pc = "derive" /\ tk2.pc = "mkdirs") => tk2.k = 1
              /\ (tk.pc = "mkdirs" /\ tk2 # tk) =>
                    /\ lastCall'.op = "exists" /\ lastCall'.path = cur
                    /\ children' = children
                    /\ IF PresentIn(children, fileAt, cur)
                       THEN \/ tk2.pc = "mkdirs" /\ tk2.k = tk.k + 1
                            \/ tk2.pc = "rename" /\ cur = dirname(tk.newPath)
                       ELSE tk2.pc = "createFolder" /\ tk2.k = tk.k
              /\ (tk.pc = "createFolder" /\ tk2 # tk) =>
                    /\ lastCall'.op = "createFolder" /\ lastCall'.path = cur
                    /\ lastCall'.ok =>
                          /\ DOMAIN children' = DOMAIN children \cup {cur}
                          /\ \/ tk2.pc = "mkdirs" /\ tk2.k = tk.k + 1
                             \/ tk2.pc = "rename" /\ cur = dirname(tk.newPath)
              /\ (tk.pc \in {"mkdirs", "createFolder"} /\ tk2.pc = "rename") =>
                    \A q \in Prefixes(dirname(tk.newPath)) :
                        PresentIn(children', fileAt', q)]_vars

C14_Witness ==
    /\ task["cmd"].pc = "rename"
    /\ lastCall.op = "createFolder"
    /\ lastCall.ok
    /\ lastCall.path = dirname(task["cmd"].newPath)
    /\ Len(lastCall.path) = Len(AttachmentPath) + 2
    /\ Len(children[dirname(lastCall.path)]) > 1

\* C15: a createFolder issued for a prefix that another organizeFile has
\* created in the meantime counts as done: the call is not a failure and
\* the task that issued it goes on to place its file.
C15_ReentrantMkdirs ==
    (lastCall.op = "createFolder" /\ IsFolder(children, lastCall.path))
    => /\ lastCall.ok
       /\ task[lastCall.by].pc # "failed"

\* C16: when the host refuses a createFolder of mkdirs, organizeFile fails
\* there: the storage tree is left as it is, folders created earlier in the
\* call included, the file keeps its path, and the failed call issues no
\* rename nor any other command afterwards.
C16_StagedMkdirs ==
    [][\A t \in Tasks :
          /\ (/\ task[t].pc = "createFolder"
               /\ task'[t] # task[t]
               /\ ~lastCall'.ok)
              => /\ children' = children /\ fileAt' = fileAt /\ fpath' = fpath
                 /\ lastCall'.op = "createFolder"
                 /\ task'[t].pc = "failed"
          /\ (task[t].pc = "failed" /\ task'[t] # task[t])
              => /\ t = "timer"
                 /\ task'[t] = [Idle EXCEPT !.pc = "cksum", !.file = task'[t].file]
                 /\ lastCall'.op = "none"]_vars

C16_Witness ==
    /\ lastCall.op = "createFolder"
    /\ ~lastCall.ok
    /\ lastCall.by = "cmd"
    /\ task["cmd"].pc = "failed"
    /\ task["timer"].pc = "idle"
    /\ Len(lastCall.path) = Len(AttachmentPath) + 2
    /\ ~IsFolder(children, lastCall.path)
    /\ IsFolder(children, dirname(lastCall.path))
    /\ Len(children[dirname(lastCall.path)]) = 0
    /\ \A f \in Files : SourceExists(f) /\ ~Placed(f)

OrganizingFile(t) == task[t].pc \in {"cksum", "derive", "mkdirs", "createFolder", "rename"}
Pruning(t) == task[t].pc \in {"clean", "delete"}

\* C17: at most one core operation is in flight: while a task is inside
\* organizeFile, no other task is inside organizeFile or inside
\* cleanEmptyDirectories.
C17_MutualExclusion ==
    \A t, u \in Tasks :
        (t # u /\ OrganizingFile(t)) => ~(OrganizingFile(u) \/ Pruning(u))

\* C18: while the plugin is loaded, one "create" listener is attached if
\* settings.autoOrganize is set and none if it is not, whatever settings
\* were saved before; none is attached once the plugin is unloaded; a
\* created file is scheduled for organizeFile at most once, and exactly
\* once when it is an attachment created with the setting on.
C18_ListenerFollowsSetting ==
    /\ plugin.listeners = IF plugin.loaded /\ settings.autoOrganize THEN 1 ELSE 0
    /\ \A f \in Files : plugin.scheduled[f] <= 1
    /\ \A f \in Files : plugin.scheduled[f] = 1 => f \in plugin.created

Organized == {n \in notices : n.text = "Organized"}

\* C19: processedCount goes up by one exactly when an organizeFile of the
\* batch returns normally and stays when one fails; the "Organized N"
\* notice, shown at most once, carries that count, which is then the
\* number of files of the worklist, each passed to organizeFile once;
\* a batch in which an organizeFile failed reports no count.
C19_CountsSuccesses ==
    /\ [](\A n \in Organized :
              /\ Organized = {n}
              /\ n.n = Len(task["cmd"].worklist)
              /\ n.n = Cardinality({f \in Files : invoked[f] = 1})
              /\ task["cmd"].pc = "failed" => cleanCalls = 1)
    /\ [][LET tk == task["cmd"]
              tk2 == task'["cmd"]
          IN  (tk2 # tk /\ runs = 1) =>
                 /\ tk2.processedCount =
                       IF OrganizingFile("cmd") /\ tk2.pc = "loop"
                       THEN tk.processedCount + 1 ELSE tk.processedCount
                 /\ (OrganizingFile("cmd") /\ ~lastCall'.ok)
                       => tk2.pc = "failed" /\ notices' = notices
                 /\ \A n \in notices' \ notices :
                       n.text = "Organized" =>
                          /\ n.n = tk.processedCount
                          /\ tk.pc = "loop" /\ tk.idx = Len(tk.worklist)]_vars

C19_Witness ==
    /\ lastCall.step = "loop"
    /\ [text |-> "Organized", n |-> 2] \in notices
    /\ Len(task["cmd"].worklist) = 2
    /\ \A f \in Files : Placed(f)

\* C20: a failed read, createFolder or rename of organizeFile is caught:
\* the task that ran organizeFile has not failed and one failure notice
\* for the file is shown.
C20_FailureNotice ==
    (lastCall.op \in {"readBinary", "createFolder", "rename"} /\ ~lastCall.ok)
    => /\ task[lastCall.by].pc # "failed"
       /\ Cardinality({n \in notices : n.text = "Error organizing"}) = 1

\* C21: a batch started right after a batch that ended without a failure
\* finds every file of its worklist at its target path, and such a batch
\* issues no rename and no createFolder and leaves every file where it is.
C21_BatchIdempotence ==
    [][LET tk == task["cmd"]
          tk2 == task'["cmd"]
          AllPlaced(wl) == \A i \in 1..Len(wl) : Placed(wl[i])
      IN  /\ (runs >= 1 /\ runs' = runs + 1 /\ tk.pc = "done")
                => AllPlaced(tk2.worklist)
          /\ (runs >= 2 /\ tk2 # tk /\ AllPlaced(tk.worklist))
                => /\ lastCall'.op \notin {"rename", "createFolder"}
                   /\ fpath' = fpath /\ fileAt' = fileAt
                   /\ DOMAIN children' \subseteq DOMAIN children]_vars

C21_Witness ==
    /\ runs = 2
    /\ task["cmd"].pc = "done"
    /\ Len(task["cmd"].worklist) = 2
    /\ \A f \in Files : Placed(f)
    /\ IsFolder(children, <<"A", "d1">>)
    /\ Len(children[<<"A", "d1">>]) = 0
    /\ ~IsFolder(children, <<"A", "d2">>)
    /\ [text |-> "Organized", n |-> 2] \in notices

----
\* C22: in every state of the plugin, loaded from DEFAULT_SETTINGS or from
\* what an earlier session saved and after any edits of the settings tab,
\* settings.pathDepth is an integer from 1 to 8, and the target derived
\* for any content has from 1 to 8 hash levels below the attachment folder.
C22_PathDepthRange ==
    /\ settings.pathDepth \in 1..8
    /\ \A c \in Contents :
          Len(Target(settings, c)) - Len(settings.attachmentPath) \in 1..8

\* the slider was moved twice and stands at its upper limit
C22_Witness ==
    /\ plugin.loaded
    /\ plugin.saves = 2
    /\ settings.pathDepth = 8
    /\ \A c \in Contents : Len(Target(settings, c)) = Len(settings.attachmentPath) + 8

----
\* C23: every vault.delete that cleanEmptyDirectories issues names a folder
\* that is in storage when the delete is issued and that has no folder left
\* beneath it: of a folder and a folder below it that are both deleted, the
\* lower one was deleted first, and no delete names a folder already removed.
C23_DeepestFirst ==
    [][\A t \in Tasks :
          (Pruning(t) /\ task'[t] # task[t] /\ lastCall'.op = "delete")
          => LET p == lastCall'.path
             IN  /\ IsFolder(children, p)
                 /\ \A q \in DOMAIN children : IsPrefix(p, q) => q = p]_vars

\* the chain: d1 is deleted after the folder d3 below it was
C23_Witness ==
    /\ lastCall.op = "delete"
    /\ lastCall.ok
    /\ lastCall.path = <<"A", "d1">>
    /\ task["cmd"].pc = "delete"
    /\ task["cmd"].stack[1].cnt = 1
    /\ ~IsFolder(children, <<"A", "d1">>)
    /\ ~IsFolder(children, <<"A", "d1", "d3">>)

----
\* C24: when cleanEmptyDirectories returns, the count it reports (in its
\* notice, which it shows for a count above 0 only) is the number of folders
\* that were in storage when it was called and are not when it returns.
C24_RemovedCount ==
    [][\A t \in Tasks :
          (Pruning(t) /\ task'[t].pc = "done")
          => LET n == Cardinality(existed' \ DOMAIN children')
             IN  notices' = notices \cup (IF n > 0 THEN {[text |-> "Removed", n |-> n]}
                                          ELSE {})]_vars

\* a folder and the folder below it were removed, and 2 is reported
C24_Witness ==
    /\ task["cmd"].pc = "done"
    /\ lastCall.step = "removeEmptyFolders"
    /\ Cardinality(existed \ DOMAIN children) = 2
    /\ <<"A", "d1", "d3">> \in existed
    /\ [text |-> "Removed", n |-> 2] \in notices
    /\ [text |-> "Removed", n |-> 1] \notin notices

----
\* C25: for every content, the empty one and those whose length is no
\* multiple of the chunk size included, and every chunk size from 1 on, the
\* chunks cksum feeds to the digest are the consecutive pieces of the
\* content, each of chunk size but a shorter last one, with no byte twice
\* and none left out; the checksum is the digest of the whole content and
\* is the same under every chunk size.
C25_ChunkIndependence ==
    LET len == Len(ck.data)
        fed == Len(ck.updates)
    IN  /\ ck.pc \in {"loop", "out"}
           => /\ \A i \in 1..fed :
                    ck.updates[i] = SubSeq(ck.data, (i - 1) * ck.chunkSize + 1,
                                           Min(i * ck.chunkSize, len))
              /\ \A i \in 1..fed : Len(ck.updates[i]) \in 1..ck.chunkSize
              /\ Concat(ck.updates) = SubSeq(ck.data, 1, Min(ck.offset, len))
        /\ ck.pc = "out"
           => /\ Concat(ck.updates) = ck.data
              /\ ck.digest = Sha256(ck.data)
              /\ \A size \in 1..MaxChunk : cksum(ck.data, size) = ck.digest

\* a content of 3 bytes hashed in chunks of 2: a whole chunk and a short one
C25_Witness ==
    /\ ck.pc = "out"
    /\ Len(ck.data) = 3
    /\ ck.chunkSize = 2
    /\ Len(ck.updates) = 2
    /\ Len(ck.updates[2]) = 1
    /\ ck.digest = Sha256(ck.data)

----
\* C26: a setTimeout callback of a "create" event starts organizeFile only
\* while the plugin is loaded and auto-organize is on: none starts after
\* the setting was switched off through saveSettings or after onunload,
\* whether its event came before or after that.
C26_NoStartAfterDisable ==
    [][(lastCall'.step = "autoOrganize" /\ timers' # timers)
          => (plugin.loaded /\ settings.autoOrganize)]_vars

----
\* C27: when mkdirs(dir) has returned and organizeFile is about to rename,
\* dir and every prefix of dir is a folder, also when a file was stored at
\* a prefix of dir.
C27_MkdirsMakesFolders ==
    task["cmd"].pc = "rename"
    => \A p \in Prefixes(dirname(task["cmd"].newPath)) : IsFolder(children, p)

----
----
\* C29: no step of organizeAttachments, of the pruning or of an
\* auto-organize callback creates, moves or deletes a file or a folder
\* outside the subtree of settings.attachmentPath, and a callback passes to
\* organizeFile only a file stored at attachmentPath or beneath it.
C29_FrameOutsideRoot ==
    [][LET root == settings.attachmentPath
           Outside(S) == {p \in S : ~IsPrefix(root, p)}
       IN  /\ task' # task
              => /\ Outside(DOMAIN children') = Outside(DOMAIN children)
                 /\ Outside(DOMAIN fileAt') = Outside(DOMAIN fileAt)
                 /\ \A p \in Outside(DOMAIN fileAt) : fileAt'[p] = fileAt[p]
           /\ (lastCall'.step = "autoOrganize" /\ timers' # timers)
              => isAttachment(fpath[task'["timer"].file], settings)]_vars

----
\* C30: when organizeAttachments has completed with removeEmptyFolders on,
\* no host call refused and no two files deriving the same target path,
\* every file under the attachment folder is stored at its derived target
\* path, pathDepth folders below the attachment folder, and every folder
\* strictly under the attachment folder has a file somewhere beneath it.
C30_BatchPostcondition ==
    (/\ runs >= 1
     /\ task["cmd"].pc = "done"
     /\ RootFound
     /\ settings.removeEmptyFolders
     /\ faults = 0
     /\ \A f, g \in Files : f # g => TargetPath(f) # TargetPath(g))
    => /\ \A f \in Files :
             UnderRoot(fpath[f])
             => /\ Placed(f)
                /\ Len(dirname(fpath[f])) = Len(settings.attachmentPath) + settings.pathDepth
       /\ \A p \in DOMAIN children :
             UnderRoot(p) => \E q \in DOMAIN fileAt : IsPrefix(p, q)

====
